---- MODULE Spec2Model ----
(***************************************************************************)
(* A state-machine model of the Hareram AI front end (src/App.tsx and      *)
(* src/geminiService.ts).  Each React component is modelled with its own   *)
(* state and one action per handler or per resumption of an async handler  *)
(* after an await.  Every component has its own specification; the state   *)
(* of the other components is left unchanged by it.                        *)
(***************************************************************************)
EXTENDS Integers, Sequences, FiniteSets, TLC

\* ------------------------------------------------------------------------
\* Bounds of the model
\* ------------------------------------------------------------------------
\* startSession invocations in one LiveAgent view
MaxSessions == 2
\* server messages delivered to the LiveAgent onmessage handler
MaxMsgs == 3
\* largest value of the output AudioContext clock
MaxTime == 1
\* largest duration of one decoded audio chunk
MaxDur == 1

\* longest text a user types into a prompt or chat input
MaxLen == 1
\* accepted chat submissions in one Chatbot view
MaxSends == 2
\* chunks one chat stream yields
MaxChunks == 2

\* accepted video submissions in one VideoGenerator view
MaxSubmits == 2
\* not-done answers of checkVideoOperation counted in one polling loop
MaxPolls == 2

\* invocations of a form view's submit handler
MaxClicks == 2
\* vendor calls issued by the form views
MaxCalls == 2
\* geolocation requests issued by one TextGenerator view
MaxGeo == 1

Sessions == 1..MaxSessions
Msgs == 1..MaxMsgs

Max(a, b) == IF a >= b THEN a ELSE b

\* ------------------------------------------------------------------------
\* Text: strings are sequences of characters
\* ------------------------------------------------------------------------
Chars == {" ", "a"}
Texts == UNION {[1..n -> Chars] : n \in 0..MaxLen}

IsSpace(c) == c = " "

RECURSIVE TrimStart(_)
TrimStart(s) == IF s # <<>> /\ IsSpace(Head(s)) THEN TrimStart(Tail(s)) ELSE s

RECURSIVE TrimEnd(_)
TrimEnd(s) ==
    IF s # <<>> /\ IsSpace(s[Len(s)]) THEN TrimEnd(SubSeq(s, 1, Len(s) - 1)) ELSE s

\* String.prototype.trim
Trim(s) == TrimEnd(TrimStart(s))

\* !s for a string s (the empty string is falsy)
Falsy(s) == s = <<>>

\* ------------------------------------------------------------------------
\* LiveAgent: state
\* ------------------------------------------------------------------------
VARIABLES
    isSessionActive,          \* useState(false)
    status,                   \* useState('Not connected. Press Start to talk.')
    sessionPromiseRef,        \* 0 = null, k = promise of the k-th connectLive
    audioContextRef,          \* 0 = null, k = input context of invocation k
    scriptProcessorRef,       \* 0 = null, k = processor made by onopen of k
    mediaStreamSourceRef,     \* 0 = null, k = source node made by onopen of k
    outputAudioContextRef,    \* 0 = null, k = output context of invocation k
    nextStartTimeRef,         \* playback cursor
    audioQueueRef,            \* set of buffer sources (named by their message)
    started,                  \* number of startSession invocations so far
    startPc,                  \* position of each startSession invocation
    stream,                   \* MediaStream got by each invocation
    inCtx,                    \* state of each input AudioContext
    outCtx,                   \* state of each output AudioContext
    capturing,                \* invocations whose capture nodes are connected
    chan,                     \* state of each live channel
    closeReq,                 \* channels whose session.close() was requested
    now,                      \* outputAudioContextRef.current.currentTime
    arrived,                  \* number of server messages delivered so far
    msg,                      \* per message: handler position and its source
    sinceInterrupted          \* an interrupted signal was handled and no chunk
                              \* has computed a start time since

liveVars == <<isSessionActive, status, sessionPromiseRef, audioContextRef,
              scriptProcessorRef, mediaStreamSourceRef, outputAudioContextRef,
              nextStartTimeRef, audioQueueRef, started, startPc, stream, inCtx,
              outCtx, capturing, chan, closeReq, now, arrived, msg,
              sinceInterrupted>>

\* ------------------------------------------------------------------------
\* Chatbot, VideoGenerator and the form views: state
\* ------------------------------------------------------------------------
VARIABLES
    chatbot,                  \* Chatbot's state and handleSend's position
    chatSends,                \* accepted chat submissions so far
    videoGenerator,           \* VideoGenerator's state, operationRef and the
                              \* position of handleSubmit / pollOperation
    videoSubmits,             \* accepted video submissions so far
    currentFeature,           \* App's currentFeature (one of the form views)
    view,                     \* state of the mounted form view
    clicks,                   \* invocations of the view's submit handler
    calls,                    \* vendor calls issued by the form views
    lastRequest               \* the request of the latest vendor call

chatVars == <<chatbot, chatSends>>
videoVars == <<videoGenerator, videoSubmits>>
formVars == <<currentFeature, view, clicks, calls, lastRequest>>

exceptLive == <<chatVars, videoVars, formVars>>
exceptChat == <<liveVars, videoVars, formVars>>
exceptVideo == <<liveVars, chatVars, formVars>>
exceptForms == <<liveVars, chatVars, videoVars>>

StatusNotConnected == "Not connected. Press Start to talk."
StatusConnecting == "Connecting..."
StatusConnected == "Connected! You can start talking."
StatusMicDenied == "Microphone access denied. Please enable it in your browser settings."
StatusConnectionError == "Connection error. Please try again."
StatusConnectionClosed == "Connection closed."

\* A message not delivered yet.  schedAt is the clock read when source.start
\* was called, epoch the number of interrupted signals handled before that.
NoMsg == [pc |-> "none", dur |-> 0, interrupted |-> FALSE,
          src |-> "none", startAt |-> 0, ctx |-> 0, schedAt |-> 0, epoch |-> 0]

\* Interrupted signals handled so far
Interruptions(ms) == Cardinality({m \in Msgs : ms[m].interrupted /\ ms[m].pc = "done"})

LiveInit ==
    /\ isSessionActive = FALSE
    /\ status = StatusNotConnected
    /\ sessionPromiseRef = 0
    /\ audioContextRef = 0
    /\ scriptProcessorRef = 0
    /\ mediaStreamSourceRef = 0
    /\ outputAudioContextRef = 0
    /\ nextStartTimeRef = 0
    /\ audioQueueRef = {}
    /\ started = 0
    /\ startPc = [k \in Sessions |-> "idle"]
    /\ stream = [k \in Sessions |-> "none"]
    /\ inCtx = [k \in Sessions |-> "none"]
    /\ outCtx = [k \in Sessions |-> "none"]
    /\ capturing = {}
    /\ chan = [k \in Sessions |-> "none"]
    /\ closeReq = {}
    /\ now = 0
    /\ arrived = 0
    /\ msg = [m \in Msgs |-> NoMsg]
    /\ sinceInterrupted = FALSE

\* ------------------------------------------------------------------------
\* LiveAgent: stopSession and the playback queue
\* ------------------------------------------------------------------------
\* source.stop() on every member of a queue q, applied to the message table ms
StopSources(ms, q) ==
    [m \in Msgs |-> IF m \in q THEN [ms[m] EXCEPT !.src = "stopped"] ELSE ms[m]]

\* AudioContext.close() through a ref (optional chaining: nothing on null).
\* The refs are never reset, so close() can be called on a context that is
\* closed already: "closedAgain" keeps that such a call was made.
CloseCtx(ctxs, ref) ==
    IF ref = 0 THEN ctxs
    ELSE IF ctxs[ref] = "open" THEN [ctxs EXCEPT ![ref] = "closed"]
    ELSE IF ctxs[ref] = "closed" THEN [ctxs EXCEPT ![ref] = "closedAgain"]
    ELSE ctxs

\* stopSession(shouldClose), whole body.  It never touches the MediaStream
\* (no track is stopped), and it leaves audioContextRef, outputAudioContextRef
\* and nextStartTimeRef as they are.  The caller says what happens to chan.
StopSession(shouldClose) ==
    /\ closeReq' = IF sessionPromiseRef # 0 /\ shouldClose
                   THEN closeReq \cup {sessionPromiseRef} ELSE closeReq
    /\ capturing' = capturing \ {scriptProcessorRef}
    /\ inCtx' = CloseCtx(inCtx, audioContextRef)
    /\ msg' = StopSources(msg, audioQueueRef)
    /\ audioQueueRef' = {}
    /\ outCtx' = CloseCtx(outCtx, outputAudioContextRef)
    /\ isSessionActive' = FALSE
    /\ status' = StatusNotConnected
    /\ sessionPromiseRef' = 0
    /\ UNCHANGED <<audioContextRef, scriptProcessorRef, mediaStreamSourceRef,
                   outputAudioContextRef, nextStartTimeRef, started, startPc,
                   stream, now, arrived, sinceInterrupted>>

\* The Stop Session button (shown while isSessionActive)
StopClick ==
    /\ isSessionActive
    /\ StopSession(TRUE)
    /\ UNCHANGED chan
    /\ UNCHANGED exceptLive

\* ------------------------------------------------------------------------
\* LiveAgent: startSession
\* ------------------------------------------------------------------------
\* The Start Session button (shown while not isSessionActive): startSession up
\* to its first await (getUserMedia)
StartSession ==
    /\ ~isSessionActive
    /\ started < MaxSessions
    /\ started' = started + 1
    /\ startPc' = [startPc EXCEPT ![started + 1] = "awaitMic"]
    /\ isSessionActive' = TRUE
    /\ status' = StatusConnecting
    /\ UNCHANGED <<sessionPromiseRef, audioContextRef, scriptProcessorRef,
                   mediaStreamSourceRef, outputAudioContextRef, nextStartTimeRef,
                   audioQueueRef, stream, inCtx, outCtx, capturing, chan,
                   closeReq, now, arrived, msg, sinceInterrupted>>
    /\ UNCHANGED exceptLive

\* getUserMedia resolved: the rest of the try block of invocation k
MicGranted(k) ==
    /\ startPc[k] = "awaitMic"
    /\ startPc' = [startPc EXCEPT ![k] = "done"]
    /\ stream' = [stream EXCEPT ![k] = "live"]
    /\ inCtx' = [inCtx EXCEPT ![k] = "open"]
    /\ outCtx' = [outCtx EXCEPT ![k] = "open"]
    /\ audioContextRef' = k
    /\ outputAudioContextRef' = k
    /\ now' = 0
    /\ sessionPromiseRef' = k
    /\ chan' = [chan EXCEPT ![k] = "connecting"]
    /\ UNCHANGED <<isSessionActive, status, scriptProcessorRef,
                   mediaStreamSourceRef, nextStartTimeRef, audioQueueRef,
                   started, capturing, closeReq, arrived, msg, sinceInterrupted>>
    /\ UNCHANGED exceptLive

\* getUserMedia rejected: the catch block of invocation k
MicDenied(k) ==
    /\ startPc[k] = "awaitMic"
    /\ startPc' = [startPc EXCEPT ![k] = "done"]
    /\ status' = StatusMicDenied
    /\ isSessionActive' = FALSE
    /\ UNCHANGED <<sessionPromiseRef, audioContextRef, scriptProcessorRef,
                   mediaStreamSourceRef, outputAudioContextRef, nextStartTimeRef,
                   audioQueueRef, started, stream, inCtx, outCtx, capturing,
                   chan, closeReq, now, arrived, msg, sinceInterrupted>>
    /\ UNCHANGED exceptLive

\* onopen of channel k
ChanOpen(k) ==
    /\ chan[k] = "connecting"
    /\ chan' = [chan EXCEPT ![k] = "open"]
    /\ status' = StatusConnected
    /\ mediaStreamSourceRef' = k
    /\ scriptProcessorRef' = k
    /\ capturing' = capturing \cup {k}
    /\ UNCHANGED <<isSessionActive, sessionPromiseRef, audioContextRef,
                   outputAudioContextRef, nextStartTimeRef, audioQueueRef,
                   started, startPc, stream, inCtx, outCtx, closeReq, now,
                   arrived, msg, sinceInterrupted>>
    /\ UNCHANGED exceptLive

\* onerror of channel k: setStatus(...) and then stopSession(), whose own
\* setStatus is the one that lasts
ChanError(k) ==
    /\ chan[k] \in {"connecting", "open"}
    /\ StopSession(TRUE)
    /\ chan' = [chan EXCEPT ![k] = "failed"]
    /\ UNCHANGED exceptLive

\* onclose of channel k: setStatus(...) and then stopSession(false)
ChanClose(k) ==
    /\ chan[k] \in {"open", "failed"}
    /\ StopSession(FALSE)
    /\ chan' = [chan EXCEPT ![k] = "closed"]
    /\ UNCHANGED exceptLive

\* ------------------------------------------------------------------------
\* LiveAgent: onmessage
\* ------------------------------------------------------------------------
\* The interrupted branch without the reset of the cursor
InterruptedKeepsCursor(ms, q) ==
    /\ msg' = StopSources(ms, q)
    /\ audioQueueRef' = {}
    /\ nextStartTimeRef' = nextStartTimeRef
    /\ sinceInterrupted' = TRUE

\* The interrupted branch: stop every queued source, clear the queue, reset
\* the cursor.  ms and q are the message table and queue as the first half of
\* the handler left them.
Interrupted(ms, q) ==
    /\ msg' = StopSources(ms, q)
    /\ audioQueueRef' = {}
    /\ nextStartTimeRef' = 0
    /\ sinceInterrupted' = TRUE

\* onmessage of channel k for a message with an audio part of duration d
\* (0 = no audio part) and the interrupted flag intr, up to its await.
\* With audio and an output context it advances the cursor to the clock and
\* suspends in decodeAudioData; otherwise it runs to its end in one step.
MsgArrive(k, d, intr) ==
    /\ chan[k] = "open"
    /\ arrived < MaxMsgs
    /\ arrived' = arrived + 1
    /\ LET m == arrived + 1
           hdr == [NoMsg EXCEPT !.dur = d, !.interrupted = intr]
       IN IF d > 0 /\ outputAudioContextRef # 0
          THEN /\ nextStartTimeRef' = Max(nextStartTimeRef, now)
               /\ msg' = [msg EXCEPT ![m] = [hdr EXCEPT !.pc = "decoding"]]
               /\ sinceInterrupted' = FALSE
               /\ UNCHANGED audioQueueRef
          ELSE LET ms == [msg EXCEPT ![m] = [hdr EXCEPT !.pc = "done"]]
               IN IF intr
                  THEN Interrupted(ms, audioQueueRef)
                  ELSE /\ msg' = ms
                       /\ UNCHANGED <<audioQueueRef, nextStartTimeRef,
                                      sinceInterrupted>>
    /\ UNCHANGED <<isSessionActive, status, sessionPromiseRef, audioContextRef,
                   scriptProcessorRef, mediaStreamSourceRef,
                   outputAudioContextRef, started, startPc, stream, inCtx,
                   outCtx, capturing, chan, closeReq, now>>
    /\ UNCHANGED exceptLive

\* decodeAudioData resolved for message m: the rest of the handler.  The
\* source is created on whatever context outputAudioContextRef names now,
\* started at the cursor, the cursor is advanced and the source is queued;
\* then the interrupted branch runs if the message carries the flag.
MsgResume(m) ==
    /\ msg[m].pc = "decoding"
    /\ LET ms == [msg EXCEPT ![m] = [@ EXCEPT !.pc = "done",
                                             !.src = "playing",
                                             !.startAt = nextStartTimeRef,
                                             !.ctx = outputAudioContextRef,
                                             !.schedAt = now,
                                             !.epoch = Interruptions(msg)]]
           q == audioQueueRef \cup {m}
       IN IF msg[m].interrupted
          THEN Interrupted(ms, q)
          ELSE /\ msg' = ms
               /\ audioQueueRef' = q
               /\ nextStartTimeRef' = nextStartTimeRef + msg[m].dur
               /\ sinceInterrupted' = FALSE
    /\ UNCHANGED <<isSessionActive, status, sessionPromiseRef, audioContextRef,
                   scriptProcessorRef, mediaStreamSourceRef,
                   outputAudioContextRef, started, startPc, stream, inCtx,
                   outCtx, capturing, chan, closeReq, now, arrived>>
    /\ UNCHANGED exceptLive

\* The 'ended' listener of the source of message m: the source has played to
\* its end on a running context
SourceEnded(m) ==
    /\ msg[m].src = "playing"
    /\ msg[m].ctx = outputAudioContextRef
    /\ outCtx[msg[m].ctx] = "open"
    /\ now >= msg[m].startAt + msg[m].dur
    /\ msg' = [msg EXCEPT ![m] = [@ EXCEPT !.src = "ended"]]
    /\ audioQueueRef' = audioQueueRef \ {m}
    /\ UNCHANGED <<isSessionActive, status, sessionPromiseRef, audioContextRef,
                   scriptProcessorRef, mediaStreamSourceRef,
                   outputAudioContextRef, nextStartTimeRef, started, startPc,
                   stream, inCtx, outCtx, capturing, chan, closeReq, now,
                   arrived, sinceInterrupted>>
    /\ UNCHANGED exceptLive

\* The clock of the running output context advances
Tick ==
    /\ outputAudioContextRef # 0
    /\ outCtx[outputAudioContextRef] = "open"
    /\ now < MaxTime
    /\ now' = now + 1
    /\ UNCHANGED <<isSessionActive, status, sessionPromiseRef, audioContextRef,
                   scriptProcessorRef, mediaStreamSourceRef,
                   outputAudioContextRef, nextStartTimeRef, audioQueueRef,
                   started, startPc, stream, inCtx, outCtx, capturing, chan,
                   closeReq, arrived, msg, sinceInterrupted>>
    /\ UNCHANGED exceptLive

LiveNext ==
    \/ StartSession
    \/ StopClick
    \/ \E k \in Sessions : MicGranted(k)
    \/ \E k \in Sessions : MicDenied(k)
    \/ \E k \in Sessions : ChanOpen(k)
    \/ \E k \in Sessions : ChanError(k)
    \/ \E k \in Sessions : ChanClose(k)
    \/ \E k \in Sessions, d \in 0..MaxDur, intr \in BOOLEAN : MsgArrive(k, d, intr)
    \/ \E m \in Msgs : MsgResume(m)
    \/ \E m \in Msgs : SourceEnded(m)
    \/ Tick

\* ------------------------------------------------------------------------
\* Chatbot
\* ------------------------------------------------------------------------
ChatErrorText == <<"Sorry, I encountered an error.">>
ChunkTexts == {<<"x">>, <<"y">>}

\* State after the mount effect has created the chat
ChatInit ==
    /\ chatbot = [chat |-> TRUE, messages |-> <<>>, input |-> <<>>,
                  isLoading |-> FALSE, pc |-> "idle", modelResponse |-> <<>>,
                  nChunks |-> 0, chunks |-> <<>>]
    /\ chatSends = 0

\* onChange of the input box (disabled while isLoading)
ChatSetInput(t) ==
    /\ ~chatbot.isLoading
    /\ chatbot.input # t
    /\ chatbot' = [chatbot EXCEPT !.input = t]
    /\ UNCHANGED chatSends
    /\ UNCHANGED exceptChat

\* The guard of handleSend: true when the handler returns at once
ChatSendRejected(c) == Falsy(Trim(c.input)) \/ ~c.chat \/ c.isLoading

\* handleSend up to its first await (chat.sendMessageStream)
ChatSend ==
    /\ ~ChatSendRejected(chatbot)
    /\ chatSends < MaxSends
    /\ chatSends' = chatSends + 1
    /\ chatbot' = [chatbot EXCEPT
                     !.messages = Append(@, [role |-> "user", content |-> chatbot.input]),
                     !.input = <<>>,
                     !.isLoading = TRUE,
                     !.pc = "awaitStream"]
    /\ UNCHANGED exceptChat

\* The catch block followed by the finally block of handleSend
ChatCatch(c) ==
    [c EXCEPT !.messages = Append(@, [role |-> "model", content |-> ChatErrorText]),
              !.isLoading = FALSE,
              !.pc = "idle"]

\* sendMessageStream resolved: the placeholder model message is appended
ChatStreamOpened ==
    /\ chatbot.pc = "awaitStream"
    /\ chatbot' = [chatbot EXCEPT
                     !.modelResponse = <<>>,
                     !.nChunks = 0,
                     !.chunks = <<>>,
                     !.messages = Append(@, [role |-> "model", content |-> <<>>]),
                     !.pc = "streaming"]
    /\ UNCHANGED chatSends
    /\ UNCHANGED exceptChat

\* sendMessageStream rejected
ChatStreamRejected ==
    /\ chatbot.pc = "awaitStream"
    /\ chatbot' = ChatCatch(chatbot)
    /\ UNCHANGED chatSends
    /\ UNCHANGED exceptChat

\* An iteration that shows the latest chunk alone
ChatChunkOverwrites(t) ==
    /\ chatbot.pc = "streaming"
    /\ chatbot.nChunks < MaxChunks
    /\ LET n == Len(chatbot.messages)
       IN chatbot' = [chatbot EXCEPT
                        !.modelResponse = t,
                        !.nChunks = @ + 1,
                        !.chunks = Append(@, t),
                        !.messages = [@ EXCEPT ![n] = [@ EXCEPT !.content = t]]]
    /\ UNCHANGED chatSends
    /\ UNCHANGED exceptChat

\* One iteration of the for-await loop: the chunk's text is added to
\* modelResponse, which replaces the content of the last message.  chunks
\* keeps the texts the stream has yielded so far.
ChatChunk(t) ==
    /\ chatbot.pc = "streaming"
    /\ chatbot.nChunks < MaxChunks
    /\ LET r == chatbot.modelResponse \o t
           n == Len(chatbot.messages)
       IN chatbot' = [chatbot EXCEPT
                        !.modelResponse = r,
                        !.nChunks = @ + 1,
                        !.chunks = Append(@, t),
                        !.messages = [@ EXCEPT ![n] = [@ EXCEPT !.content = r]]]
    /\ UNCHANGED chatSends
    /\ UNCHANGED exceptChat

\* The stream ends: the finally block
ChatStreamEnd ==
    /\ chatbot.pc = "streaming"
    /\ chatbot' = [chatbot EXCEPT !.isLoading = FALSE, !.pc = "idle"]
    /\ UNCHANGED chatSends
    /\ UNCHANGED exceptChat

\* The stream throws while it is iterated
ChatStreamFailed ==
    /\ chatbot.pc = "streaming"
    /\ chatbot' = ChatCatch(chatbot)
    /\ UNCHANGED chatSends
    /\ UNCHANGED exceptChat

ChatNext ==
    \/ \E t \in Texts : ChatSetInput(t)
    \/ ChatSend
    \/ ChatStreamOpened
    \/ ChatStreamRejected
    \/ \E t \in ChunkTexts : ChatChunk(t)
    \/ ChatStreamEnd
    \/ ChatStreamFailed

\* ------------------------------------------------------------------------
\* VideoGenerator
\* ------------------------------------------------------------------------
MsgStarting == "Starting video generation..."
MsgProcessing == "Processing video... this can take a few minutes."
ErrCheckFailed == "Failed to check video status. The API key might be invalid."
ErrNoVideo == "Video generation completed, but no video was returned."
ErrApiKey == "API Key error. Please select your API key again."
ErrStartFailed == "Failed to start video generation."
BlobUrl == "blob:video"

\* operationRef.current = null
NullOp == [name |-> 0, done |-> FALSE, hasUri |-> FALSE]

VideoInit ==
    /\ videoGenerator = [prompt |-> <<>>, imageFile |-> FALSE, videoUrl |-> "",
                         isLoading |-> FALSE, loadingMessage |-> "",
                         error |-> "", apiKeySelected |-> FALSE,
                         operationRef |-> NullOp, pc |-> "idle",
                         checks |-> 0, notDone |-> 0, downloads |-> 0,
                         mounted |-> TRUE, failure |-> "none"]
    /\ videoSubmits = 0

\* checkKey (mount effect) found a selected key, or handleSelectKey ran
VideoSelectKey ==
    /\ videoGenerator.mounted
    /\ ~videoGenerator.apiKeySelected
    /\ videoGenerator' = [videoGenerator EXCEPT !.apiKeySelected = TRUE]
    /\ UNCHANGED videoSubmits
    /\ UNCHANGED exceptVideo

\* onChange of the prompt textarea (rendered once a key is selected)
VideoSetPrompt(t) ==
    /\ videoGenerator.mounted
    /\ videoGenerator.apiKeySelected
    /\ videoGenerator.prompt # t
    /\ videoGenerator' = [videoGenerator EXCEPT !.prompt = t]
    /\ UNCHANGED videoSubmits
    /\ UNCHANGED exceptVideo

\* handleFileChange with a chosen file
VideoFileChange ==
    /\ videoGenerator.mounted
    /\ videoGenerator.apiKeySelected
    /\ ~videoGenerator.imageFile
    /\ videoGenerator' = [videoGenerator EXCEPT !.imageFile = TRUE]
    /\ UNCHANGED videoSubmits
    /\ UNCHANGED exceptVideo

\* A submit button that stays enabled while a generation is loading
VideoButtonIgnoresLoading(v) == ~v.imageFile \/ Falsy(v.prompt)

\* The submit button is disabled
VideoButtonDisabled(v) == v.isLoading \/ ~v.imageFile \/ Falsy(v.prompt)

\* The guard of handleSubmit: true when the handler returns at once
VideoSubmitRejected(v) == Falsy(Trim(v.prompt)) \/ ~v.imageFile

\* handleSubmit up to its first await (fileToBase64, then generateVideo)
VideoSubmit ==
    /\ videoGenerator.mounted
    /\ videoGenerator.apiKeySelected
    /\ ~VideoButtonDisabled(videoGenerator)
    /\ ~VideoSubmitRejected(videoGenerator)
    /\ videoSubmits < MaxSubmits
    /\ videoSubmits' = videoSubmits + 1
    /\ videoGenerator' = [videoGenerator EXCEPT
                            !.isLoading = TRUE, !.videoUrl = "", !.error = "",
                            !.loadingMessage = MsgStarting, !.pc = "starting",
                            !.failure = "none"]
    /\ UNCHANGED exceptVideo

\* A catch block that never asks for the key again
VideoSubmitCatchKeepsKey(v, notFound) ==
    [v EXCEPT !.error = ErrStartFailed, !.isLoading = FALSE, !.pc = "idle"]

\* The catch block of handleSubmit; notFound says whether the error message
\* includes "Requested entity was not found"
VideoSubmitCatch(v, notFound) ==
    IF notFound
    THEN [v EXCEPT !.error = ErrApiKey, !.apiKeySelected = FALSE,
                   !.isLoading = FALSE, !.pc = "idle"]
    ELSE [v EXCEPT !.error = ErrStartFailed, !.isLoading = FALSE, !.pc = "idle"]

\* A loop condition that does not look at the done flag
LoopIgnoresDone(op) == op # NullOp

\* The condition of the while loop of pollOperation
LoopContinues(op) == op # NullOp /\ ~op.done

\* A uri test that takes any finished operation to carry a uri
HasUriAlways(op) == TRUE

\* The test of the uri of a finished operation
HasUri(op) == op.hasUri

\* pollOperation after its loop: download the video or report its absence
AfterLoop(v) ==
    IF v.operationRef # NullOp /\ v.operationRef.done
    THEN IF HasUri(v.operationRef)
         THEN [v EXCEPT !.pc = "downloading", !.downloads = @ + 1]
         ELSE [v EXCEPT !.error = ErrNoVideo, !.isLoading = FALSE, !.pc = "idle"]
    ELSE [v EXCEPT !.pc = "idle"]

\* A polling loop that gives up with an error after the first not-done answer
PollLoopWithLimit(v) ==
    IF LoopContinues(v.operationRef)
    THEN IF v.notDone < 1
         THEN [v EXCEPT !.loadingMessage = MsgProcessing, !.pc = "sleeping"]
         ELSE [v EXCEPT !.error = "Video generation timed out.",
                        !.isLoading = FALSE, !.pc = "idle"]
    ELSE AfterLoop(v)

\* pollOperation from the loop test on, up to its next await
PollLoop(v) ==
    IF LoopContinues(v.operationRef)
    THEN [v EXCEPT !.loadingMessage = MsgProcessing, !.pc = "sleeping"]
    ELSE AfterLoop(v)

\* generateVideo resolved with a handle: pollOperation starts
VideoStarted(done, uri) ==
    /\ videoGenerator.pc = "starting"
    /\ uri => done
    /\ videoGenerator' =
           PollLoop([videoGenerator EXCEPT
                       !.operationRef = [name |-> videoSubmits, done |-> done,
                                         hasUri |-> uri],
                       !.checks = 0, !.notDone = 0])
    /\ UNCHANGED videoSubmits
    /\ UNCHANGED exceptVideo

\* fileToBase64 or generateVideo rejected
VideoStartFailed(notFound) ==
    /\ videoGenerator.pc = "starting"
    /\ videoGenerator' =
           VideoSubmitCatch([videoGenerator EXCEPT
                               !.failure = IF notFound THEN "notFound" ELSE "start"],
                            notFound)
    /\ UNCHANGED videoSubmits
    /\ UNCHANGED exceptVideo

\* The 10 s timer fired: checkVideoOperation is called
VideoTimerFired ==
    /\ videoGenerator.pc = "sleeping"
    /\ videoGenerator' = [videoGenerator EXCEPT
                            !.pc = "checking",
                            !.checks = IF @ <= MaxPolls THEN @ + 1 ELSE @]
    /\ UNCHANGED videoSubmits
    /\ UNCHANGED exceptVideo

\* checkVideoOperation resolved with the refreshed handle
VideoCheckAnswer(done, uri) ==
    /\ videoGenerator.pc = "checking"
    /\ uri => done
    /\ ~done => videoGenerator.notDone < MaxPolls
    /\ videoGenerator' =
           PollLoop([videoGenerator EXCEPT
                       !.operationRef = [@ EXCEPT !.done = done, !.hasUri = uri],
                       !.notDone = IF done THEN @ ELSE @ + 1])
    /\ UNCHANGED videoSubmits
    /\ UNCHANGED exceptVideo

\* checkVideoOperation answers not-done once more, after MaxPolls such
\* answers have been counted
VideoCheckNotDoneAgain ==
    /\ videoGenerator.pc = "checking"
    /\ videoGenerator.notDone = MaxPolls
    /\ videoGenerator' =
           PollLoop([videoGenerator EXCEPT
                       !.operationRef = [@ EXCEPT !.done = FALSE, !.hasUri = FALSE]])
    /\ UNCHANGED videoSubmits
    /\ UNCHANGED exceptVideo

\* A catch block that reports the failed check and lets the loop go on
VideoCheckFailedRetries ==
    /\ videoGenerator.pc = "checking"
    /\ videoGenerator' = [videoGenerator EXCEPT
                            !.error = ErrCheckFailed, !.failure = "check",
                            !.pc = "sleeping"]
    /\ UNCHANGED videoSubmits
    /\ UNCHANGED exceptVideo

\* checkVideoOperation rejected: the catch block inside the loop
VideoCheckFailed ==
    /\ videoGenerator.pc = "checking"
    /\ videoGenerator' = [videoGenerator EXCEPT
                            !.error = ErrCheckFailed, !.isLoading = FALSE,
                            !.apiKeySelected = FALSE, !.pc = "idle",
                            !.failure = "check"]
    /\ UNCHANGED videoSubmits
    /\ UNCHANGED exceptVideo

\* fetch and response.blob() resolved
VideoDownloadDone ==
    /\ videoGenerator.pc = "downloading"
    /\ videoGenerator' = [videoGenerator EXCEPT
                            !.videoUrl = BlobUrl, !.isLoading = FALSE,
                            !.pc = "idle"]
    /\ UNCHANGED videoSubmits
    /\ UNCHANGED exceptVideo

\* fetch or response.blob() rejected: the error leaves pollOperation and is
\* caught by handleSubmit
VideoDownloadFailed ==
    /\ videoGenerator.pc = "downloading"
    /\ videoGenerator' =
           VideoSubmitCatch([videoGenerator EXCEPT !.failure = "download"], FALSE)
    /\ UNCHANGED videoSubmits
    /\ UNCHANGED exceptVideo

\* The user selects another feature: App.renderFeature stops rendering
\* VideoGenerator and the component is unmounted.  The component has no
\* cleanup effect, so operationRef and a running handler are left as they
\* are; the handlers of its controls can no longer be invoked.
VideoUnmount ==
    /\ videoGenerator.mounted
    /\ videoGenerator' = [videoGenerator EXCEPT !.mounted = FALSE]
    /\ UNCHANGED videoSubmits
    /\ UNCHANGED exceptVideo

VideoNext ==
    \/ VideoSelectKey
    \/ \E t \in Texts : VideoSetPrompt(t)
    \/ VideoFileChange
    \/ VideoSubmit
    \/ \E done, uri \in BOOLEAN : VideoStarted(done, uri)
    \/ \E notFound \in BOOLEAN : VideoStartFailed(notFound)
    \/ VideoTimerFired
    \/ \E done, uri \in BOOLEAN : VideoCheckAnswer(done, uri)
    \/ VideoCheckFailed
    \/ VideoDownloadDone
    \/ VideoDownloadFailed
    \/ VideoUnmount

\* The polling loop with no bound on the number of not-done answers
VideoNextUnbounded == VideoNext \/ VideoCheckNotDoneAgain

\* Every await of pollOperation settles: the timer fires, checkVideoOperation
\* resolves or rejects, and so do generateVideo and the download
VideoFairness ==
    /\ WF_<<videoGenerator, videoSubmits>>(VideoTimerFired)
    /\ WF_<<videoGenerator, videoSubmits>>(
           (\E done, uri \in BOOLEAN : VideoCheckAnswer(done, uri))
              \/ VideoCheckNotDoneAgain \/ VideoCheckFailed)
    /\ WF_<<videoGenerator, videoSubmits>>(
           (\E done, uri \in BOOLEAN : VideoStarted(done, uri))
              \/ (\E notFound \in BOOLEAN : VideoStartFailed(notFound)))
    /\ WF_<<videoGenerator, videoSubmits>>(VideoDownloadDone \/ VideoDownloadFailed)

\* ------------------------------------------------------------------------
\* Adapters (geminiService.ts): the request each one builds
\* ------------------------------------------------------------------------
ThinkingBudget == 32768

\* generateText attaching a toolConfig whenever useMaps is on
GenerateTextRequestNoNullCheck(prompt, useThinking, useSearch, useMaps, currentPosition) ==
    [api |-> "generateContent",
     model |-> IF useThinking THEN "gemini-2.5-pro" ELSE "gemini-2.5-flash-lite",
     contents |-> prompt,
     thinkingBudget |-> IF useThinking THEN ThinkingBudget ELSE 0,
     tools |-> (IF useSearch THEN <<"googleSearch">> ELSE <<>>)
                  \o (IF useMaps THEN <<"googleMaps">> ELSE <<>>),
     configTools |-> Len((IF useSearch THEN <<"googleSearch">> ELSE <<>>)
                            \o (IF useMaps THEN <<"googleMaps">> ELSE <<>>)) > 0,
     toolConfig |-> IF useMaps
                    THEN IF currentPosition # <<>>
                         THEN <<[latitude |-> currentPosition[1].latitude,
                                 longitude |-> currentPosition[1].longitude]>>
                         ELSE <<[latitude |-> 0, longitude |-> 0]>>
                    ELSE <<>>]

\* generateText with the search tool pushed whatever useSearch says
GenerateTextRequestSearchAlways(prompt, useThinking, useSearch, useMaps, currentPosition) ==
    [api |-> "generateContent",
     model |-> IF useThinking THEN "gemini-2.5-pro" ELSE "gemini-2.5-flash-lite",
     contents |-> prompt,
     thinkingBudget |-> IF useThinking THEN ThinkingBudget ELSE 0,
     tools |-> <<"googleSearch">> \o (IF useMaps THEN <<"googleMaps">> ELSE <<>>),
     configTools |-> TRUE,
     toolConfig |-> IF useMaps /\ currentPosition # <<>>
                    THEN <<[latitude |-> currentPosition[1].latitude,
                            longitude |-> currentPosition[1].longitude]>>
                    ELSE <<>>]

\* generateText: model, tools and config built from the flags.  thinkingBudget
\* 0 stands for a config without thinkingConfig, configTools says whether
\* config.tools is set, toolConfig <<>> stands for a config without toolConfig.
GenerateTextRequest(prompt, useThinking, useSearch, useMaps, currentPosition) ==
    [api |-> "generateContent",
     model |-> IF useThinking THEN "gemini-2.5-pro" ELSE "gemini-2.5-flash-lite",
     contents |-> prompt,
     thinkingBudget |-> IF useThinking THEN ThinkingBudget ELSE 0,
     tools |-> (IF useSearch THEN <<"googleSearch">> ELSE <<>>)
                  \o (IF useMaps THEN <<"googleMaps">> ELSE <<>>),
     configTools |-> Len((IF useSearch THEN <<"googleSearch">> ELSE <<>>)
                            \o (IF useMaps THEN <<"googleMaps">> ELSE <<>>)) > 0,
     toolConfig |-> IF useMaps /\ currentPosition # <<>>
                    THEN <<[latitude |-> currentPosition[1].latitude,
                            longitude |-> currentPosition[1].longitude]>>
                    ELSE <<>>]

\* generateImage, editImage, analyzeImage, generateSpeech
AdapterRequest(api, model, prompt) ==
    [api |-> api, model |-> model, contents |-> prompt, thinkingBudget |-> 0,
     tools |-> <<>>, configTools |-> FALSE, toolConfig |-> <<>>]

NoRequest == AdapterRequest("none", "none", <<>>)

\* ------------------------------------------------------------------------
\* TextGenerator, ImageGenerator, ImageEditor, ImageAnalyzer, TextToSpeech
\* ------------------------------------------------------------------------
TextGen == "Text Gen"
ImageGen == "Image Gen"
ImageEdit == "Image Edit"
ImageAnalyze == "Image Analyze"
TTS == "TTS"
FormFeatures == {TextGen, ImageGen, ImageEdit, ImageAnalyze, TTS}
FileFeatures == {ImageEdit, ImageAnalyze}

Positions == {[latitude |-> 1, longitude |-> 2], [latitude |-> 3, longitude |-> 4]}
GeoSlots == 1..MaxGeo

ErrGeo == "Could not get location for Maps. Please grant permission."

\* The message each view shows when its call fails
ErrorText(f) ==
    CASE f = TextGen -> "Failed to generate text. Please try again."
      [] f = ImageGen -> "Failed to generate image. Please try again."
      [] f = ImageEdit -> "Failed to edit image. Please try again."
      [] f = ImageAnalyze -> "Failed to analyze image."
      [] f = TTS -> "Failed to generate speech."

\* useState initial values of the view of feature f; issued counts the
\* vendor calls of the latest run of the submit handler
InitView(f) ==
    [prompt |-> IF f \in {ImageAnalyze, TTS} THEN <<"a">> ELSE <<>>,
     hasFile |-> FALSE, isLoading |-> FALSE, error |-> "", result |-> "",
     pc |-> "idle", closurePrompt |-> <<>>, issued |-> 0,
     useThinking |-> FALSE, useSearch |-> FALSE, useMaps |-> FALSE,
     position |-> <<>>, geo |-> [i \in GeoSlots |-> "none"]]

FormInit ==
    /\ currentFeature = TextGen
    /\ view = InitView(TextGen)
    /\ clicks = 0
    /\ calls = 0
    /\ lastRequest = NoRequest

\* A feature button of the nav bar: the old view is unmounted (what its
\* pending promises set later is dropped) and the new one starts afresh
SelectFeature(f) ==
    /\ f # currentFeature
    /\ currentFeature' = f
    /\ view' = InitView(f)
    /\ UNCHANGED <<clicks, calls, lastRequest>>
    /\ UNCHANGED exceptForms

\* onChange of the prompt (or text) box
FormSetPrompt(t) ==
    /\ view.prompt # t
    /\ view' = [view EXCEPT !.prompt = t]
    /\ UNCHANGED <<currentFeature, clicks, calls, lastRequest>>
    /\ UNCHANGED exceptForms

\* handleFileChange of ImageEditor / ImageAnalyzer with a chosen file
FormFileChange ==
    /\ currentFeature \in FileFeatures
    /\ view' = [view EXCEPT !.hasFile = TRUE, !.result = ""]
    /\ UNCHANGED <<currentFeature, clicks, calls, lastRequest>>
    /\ UNCHANGED exceptForms

\* The three checkboxes of TextGenerator.  Toggling Maps runs the effect:
\* with useMaps on and no position it asks for the current position.
ToggleThinking ==
    /\ currentFeature = TextGen
    /\ view' = [view EXCEPT !.useThinking = ~@]
    /\ UNCHANGED <<currentFeature, clicks, calls, lastRequest>>
    /\ UNCHANGED exceptForms

ToggleSearch ==
    /\ currentFeature = TextGen
    /\ view' = [view EXCEPT !.useSearch = ~@]
    /\ UNCHANGED <<currentFeature, clicks, calls, lastRequest>>
    /\ UNCHANGED exceptForms

FreeSlots(v) == {i \in GeoSlots : v.geo[i] = "none"}

ToggleMaps ==
    /\ currentFeature = TextGen
    /\ IF ~view.useMaps /\ view.position = <<>>
       THEN /\ FreeSlots(view) # {}
            /\ LET i == CHOOSE j \in FreeSlots(view) :
                            \A l \in FreeSlots(view) : j <= l
               IN view' = [view EXCEPT !.useMaps = TRUE, !.geo[i] = "pending"]
       ELSE view' = [view EXCEPT !.useMaps = ~@]
    /\ UNCHANGED <<currentFeature, clicks, calls, lastRequest>>
    /\ UNCHANGED exceptForms

\* The success callback of getCurrentPosition: setPosition(pos)
GeoSuccess(i, p) ==
    /\ currentFeature = TextGen
    /\ view.geo[i] = "pending"
    /\ view' = [view EXCEPT !.geo[i] = "granted", !.position = <<p>>]
    /\ UNCHANGED <<currentFeature, clicks, calls, lastRequest>>
    /\ UNCHANGED exceptForms

\* The error callback of getCurrentPosition: setError(...)
GeoError(i) ==
    /\ currentFeature = TextGen
    /\ view.geo[i] = "pending"
    /\ view' = [view EXCEPT !.geo[i] = "denied", !.error = ErrGeo]
    /\ UNCHANGED <<currentFeature, clicks, calls, lastRequest>>
    /\ UNCHANGED exceptForms

\* The submit button is disabled
ButtonDisabled(f, v) ==
    IF f \in FileFeatures
    THEN v.isLoading \/ ~v.hasFile \/ Falsy(v.prompt)
    ELSE v.isLoading

\* A guard that tests the prompt without trimming it
SubmitRejectedNoTrim(f, v) ==
    IF f \in FileFeatures
    THEN Falsy(v.prompt) \/ ~v.hasFile
    ELSE Falsy(v.prompt)

\* The guard of the submit handler: true when the handler returns at once
SubmitRejected(f, v) ==
    IF f \in FileFeatures
    THEN Falsy(Trim(v.prompt)) \/ ~v.hasFile
    ELSE Falsy(Trim(v.prompt))

\* The request the view's adapter sends for prompt p
Request(f, v, p) ==
    CASE f = TextGen ->
           GenerateTextRequest(p, v.useThinking, v.useSearch, v.useMaps, v.position)
      [] f = ImageGen -> AdapterRequest("generateImages", "imagen-4.0-generate-001", p)
      [] f = ImageEdit -> AdapterRequest("generateContent", "gemini-2.5-flash-image", p)
      [] f = ImageAnalyze -> AdapterRequest("generateContent", "gemini-2.5-flash", p)
      [] f = TTS -> AdapterRequest("generateContent", "gemini-2.5-flash-preview-tts", p)

\* handleSubmit / handleSpeak up to its first await.  The views without a
\* file call their adapter at once; ImageEditor and ImageAnalyzer first
\* await fileToBase64, keeping the prompt of the render that was clicked.
FormSubmit ==
    /\ ~ButtonDisabled(currentFeature, view)
    /\ clicks < MaxClicks
    /\ clicks' = clicks + 1
    /\ IF SubmitRejected(currentFeature, view)
       THEN UNCHANGED <<view, calls, lastRequest>>
       ELSE /\ calls < MaxCalls
            /\ IF currentFeature \in FileFeatures
               THEN /\ view' = [view EXCEPT !.isLoading = TRUE, !.result = "",
                                            !.error = "", !.pc = "reading",
                                            !.closurePrompt = view.prompt,
                                            !.issued = 0]
                    /\ UNCHANGED <<calls, lastRequest>>
               ELSE /\ view' = [view EXCEPT !.isLoading = TRUE, !.result = "",
                                            !.error = "", !.pc = "calling",
                                            !.issued = 1]
                    /\ calls' = calls + 1
                    /\ lastRequest' = Request(currentFeature, view, view.prompt)
    /\ UNCHANGED currentFeature
    /\ UNCHANGED exceptForms

\* The catch block followed by the finally block of the submit handler
FormCatch(f, v) ==
    [v EXCEPT !.error = ErrorText(f), !.isLoading = FALSE, !.pc = "idle",
              !.closurePrompt = <<>>]

\* fileToBase64 resolved: editImage / analyzeImage is called
FormFileRead ==
    /\ view.pc = "reading"
    /\ view' = [view EXCEPT !.pc = "calling", !.closurePrompt = <<>>,
                            !.issued = @ + 1]
    /\ calls' = calls + 1
    /\ lastRequest' = Request(currentFeature, view, view.closurePrompt)
    /\ UNCHANGED <<currentFeature, clicks>>
    /\ UNCHANGED exceptForms

\* fileToBase64 rejected
FormFileReadFailed ==
    /\ view.pc = "reading"
    /\ view' = FormCatch(currentFeature, view)
    /\ UNCHANGED <<currentFeature, clicks, calls, lastRequest>>
    /\ UNCHANGED exceptForms

\* The adapter call resolved.  TextToSpeech goes on to decodeAudioData; the
\* other views show the result and run the finally block.
FormCallOk ==
    /\ view.pc = "calling"
    /\ view' = IF currentFeature = TTS
               THEN [view EXCEPT !.pc = "decoding"]
               ELSE [view EXCEPT !.result = "ok", !.isLoading = FALSE, !.pc = "idle"]
    /\ UNCHANGED <<currentFeature, clicks, calls, lastRequest>>
    /\ UNCHANGED exceptForms

\* A catch block that issues the rejected call once more
FormCallFailedRetries ==
    /\ view.pc = "calling"
    /\ view' = [view EXCEPT !.issued = @ + 1]
    /\ calls' = calls + 1
    /\ UNCHANGED <<currentFeature, clicks, lastRequest>>
    /\ UNCHANGED exceptForms

\* The adapter call rejected
FormCallFailed ==
    /\ view.pc = "calling"
    /\ view' = FormCatch(currentFeature, view)
    /\ UNCHANGED <<currentFeature, clicks, calls, lastRequest>>
    /\ UNCHANGED exceptForms

\* decodeAudioData resolved in handleSpeak: the source is started
FormDecodeOk ==
    /\ view.pc = "decoding"
    /\ view' = [view EXCEPT !.result = "ok", !.isLoading = FALSE, !.pc = "idle"]
    /\ UNCHANGED <<currentFeature, clicks, calls, lastRequest>>
    /\ UNCHANGED exceptForms

\* decodeAudioData rejected in handleSpeak
FormDecodeFailed ==
    /\ view.pc = "decoding"
    /\ view' = FormCatch(currentFeature, view)
    /\ UNCHANGED <<currentFeature, clicks, calls, lastRequest>>
    /\ UNCHANGED exceptForms

FormNext ==
    \/ \E f \in FormFeatures : SelectFeature(f)
    \/ \E t \in Texts : FormSetPrompt(t)
    \/ FormFileChange
    \/ ToggleThinking
    \/ ToggleSearch
    \/ ToggleMaps
    \/ \E i \in GeoSlots, p \in Positions : GeoSuccess(i, p)
    \/ \E i \in GeoSlots : GeoError(i)
    \/ FormSubmit
    \/ FormFileRead
    \/ FormFileReadFailed
    \/ FormCallOk
    \/ FormCallFailed
    \/ FormDecodeOk
    \/ FormDecodeFailed

\* ------------------------------------------------------------------------
\* Specifications: one per component
\* ------------------------------------------------------------------------
vars == <<liveVars, chatVars, videoVars, formVars>>

Init == LiveInit /\ ChatInit /\ VideoInit /\ FormInit

SpecLive == Init /\ [][LiveNext]_vars

SpecChat == Init /\ [][ChatNext]_vars

SpecVideo == Init /\ [][VideoNext]_vars

SpecVideoFair == Init /\ [][VideoNextUnbounded]_vars /\ VideoFairness

SpecForms == Init /\ [][FormNext]_vars

\* ------------------------------------------------------------------------
\* Properties of LiveAgent (SpecLive)
\* ------------------------------------------------------------------------
\* C1: once an interrupted signal has been handled, and until the next chunk
\* computes a start time, the playback queue is empty, the cursor is 0 and no
\* source is playing any more; so the next chunk to be scheduled sees an
\* empty queue and a cursor of 0.
C1_InterruptFlushes ==
    sinceInterrupted =>
        /\ audioQueueRef = {}
        /\ nextStartTimeRef = 0
        /\ \A m \in Msgs : msg[m].src # "playing"

\* An interrupted signal was handled in the first session, which was never
\* stopped, and it stopped the queued source of an earlier message
C1_Witness ==
    /\ sinceInterrupted
    /\ started = 1
    /\ isSessionActive
    /\ \E m \in Msgs : msg[m].src = "stopped" /\ ~msg[m].interrupted

\* C2: no chunk that arrived before an interrupted signal is playing, or in
\* the playback queue, once that signal has been processed.
C2_NoStaleChunk ==
    \A m \in Msgs : \A j \in Msgs :
        (m < j /\ msg[j].interrupted /\ msg[j].pc = "done")
            => (msg[m].src # "playing" /\ m \notin audioQueueRef)

\* C3: whenever the session is not active (stopSession has run, or the
\* microphone was refused, and Start was not clicked since), no microphone
\* stream is live and no audio context is open.
C3_StopReleases ==
    ~isSessionActive =>
        \A k \in Sessions :
            stream[k] # "live" /\ inCtx[k] # "open" /\ outCtx[k] # "open"

\* C11: at most one live channel is open or being opened.  Channels whose
\* close was already requested by stopSession are left out of the count, so
\* two counted channels are two channels nothing is going to close.
C11_OneChannel ==
    Cardinality({k \in Sessions :
                    chan[k] \in {"connecting", "open"} /\ k \notin closeReq}) <= 1

\* Message m carried audio and its source was started
Scheduled(m) == msg[m].pc = "done" /\ msg[m].src # "none"

\* C16: of two audio messages scheduled on the same output context, with no
\* interrupted signal arriving from the first to the second nor handled
\* between their scheduling, the one that arrived first starts no later.
C16_ArrivalOrder ==
    \A m \in Msgs : \A j \in Msgs :
        (/\ m < j
         /\ Scheduled(m) /\ Scheduled(j)
         /\ msg[m].ctx = msg[j].ctx
         /\ msg[m].epoch = msg[j].epoch
         /\ \A i \in m..j : ~msg[i].interrupted)
            => msg[m].startAt <= msg[j].startAt

\* C18: the cursor decreases only when an interrupted signal is handled; a
\* chunk is started no earlier than the output clock read at that moment; and
\* two chunks scheduled on one context between the same two interrupted
\* signals occupy disjoint intervals [startAt, startAt + dur).
C18_NoOverlap ==
    /\ [][nextStartTimeRef' < nextStartTimeRef
             => Interruptions(msg') > Interruptions(msg)]_vars
    /\ [](\A m \in Msgs : Scheduled(m) => msg[m].startAt >= msg[m].schedAt)
    /\ [](\A m \in Msgs : \A j \in Msgs :
             (/\ m # j
              /\ Scheduled(m) /\ Scheduled(j)
              /\ msg[m].ctx = msg[j].ctx
              /\ msg[m].epoch = msg[j].epoch)
                 => \/ msg[m].startAt + msg[m].dur <= msg[j].startAt
                    \/ msg[j].startAt + msg[j].dur <= msg[m].startAt)

\* C19: the step in which a channel's onerror runs leaves the session
\* inactive and the connection-error message as the status.
C19_ErrorSurfaced ==
    [][\A k \in Sessions :
           (chan[k] # "failed" /\ chan'[k] = "failed")
              => (~isSessionActive' /\ status' = StatusConnectionError)]_vars

\* C22: while the latest session is active and has its audio contexts open,
\* the onerror or onclose of the channel of an earlier startSession leaves
\* isSessionActive true and does not touch the latest session's audio
\* contexts, the playback queue or the cursor.
C22_OldCallbackHarmless ==
    [][\A k \in Sessions :
           (/\ k < started
            /\ isSessionActive
            /\ inCtx[started] = "open" /\ outCtx[started] = "open"
            /\ chan'[k] # chan[k]
            /\ chan'[k] \in {"failed", "closed"})
              => /\ isSessionActive'
                 /\ inCtx'[started] = inCtx[started]
                 /\ outCtx'[started] = outCtx[started]
                 /\ audioQueueRef' = audioQueueRef
                 /\ nextStartTimeRef' = nextStartTimeRef]_vars

\* C23: close() is never called on an audio context that is closed already,
\* and the step of a channel's own close event requests no close.  (closeReq
\* records a request by membership; stopSession nulls sessionPromiseRef as it
\* requests, so a channel is requested through the ref at most once.)
C23_TeardownOnce ==
    /\ [](\A k \in Sessions :
             inCtx[k] # "closedAgain" /\ outCtx[k] # "closedAgain")
    /\ [][\A k \in Sessions :
             (chan[k] # "closed" /\ chan'[k] = "closed") => closeReq' = closeReq]_vars

\* ------------------------------------------------------------------------
\* Properties of Chatbot (SpecChat)
\* ------------------------------------------------------------------------
\* C4: the message list alternates user, model, user, model, ..., and once
\* handleSend has finished every accepted submission has added exactly one
\* user message and one model message.
C4_Alternates ==
    /\ \A i \in 1..Len(chatbot.messages) :
           chatbot.messages[i].role = IF i % 2 = 1 THEN "user" ELSE "model"
    /\ chatbot.pc = "idle" => Len(chatbot.messages) = 2 * chatSends

\* The texts of a sequence of chunks, one after the other
RECURSIVE Concat(_)
Concat(cs) == IF cs = <<>> THEN <<>> ELSE Head(cs) \o Concat(Tail(cs))

\* C17: while a reply streams the last message is the model's and its
\* content is the concatenation of the chunks yielded so far, in order; and
\* no step removes a message or changes any message but the last.
C17_StreamConcatenates ==
    /\ [](chatbot.pc = "streaming"
             => LET n == Len(chatbot.messages)
                IN /\ n >= 1
                   /\ chatbot.messages[n].role = "model"
                   /\ chatbot.messages[n].content = Concat(chatbot.chunks)
                   /\ Len(chatbot.chunks) = chatbot.nChunks)
    /\ [][/\ Len(chatbot'.messages) >= Len(chatbot.messages)
          /\ \A i \in 1..(Len(chatbot.messages) - 1) :
                 chatbot'.messages[i] = chatbot.messages[i]
          /\ chatbot.pc # "streaming"
                => \A i \in 1..Len(chatbot.messages) :
                       chatbot'.messages[i] = chatbot.messages[i]]_vars

\* The second reply of the conversation has streamed two different chunks
C17_Witness ==
    /\ chatbot.pc = "streaming"
    /\ chatSends = 2
    /\ chatbot.chunks = << <<"x">>, <<"y">> >>
    /\ chatbot.messages[Len(chatbot.messages)].content = <<"x", "y">>

\* ------------------------------------------------------------------------
\* Properties of VideoGenerator (SpecVideo, SpecVideoFair)
\* ------------------------------------------------------------------------
Polling(v) == v.pc \in {"sleeping", "checking"}

\* C5: once the handle is done no status check is pending or scheduled; when
\* the handler has ended with a done handle, isLoading is false and either
\* videoUrl or an error is set; and the status checks of a loop number at
\* most its not-done answers plus one.
C5_PollingStops ==
    LET v == videoGenerator
    IN /\ v.operationRef.done => ~Polling(v)
       /\ (v.pc = "idle" /\ v.operationRef.done)
             => (~v.isLoading /\ (v.videoUrl # "" \/ v.error # ""))
       /\ v.checks <= v.notDone + 1

\* A loop that saw MaxPolls not-done answers and then a done one with a uri,
\* and downloaded the video
C5_Witness ==
    LET v == videoGenerator
    IN /\ v.pc = "idle"
       /\ v.operationRef.done
       /\ v.notDone = MaxPolls
       /\ v.checks = MaxPolls + 1
       /\ v.videoUrl = BlobUrl
       /\ ~v.isLoading

\* C6 as stated: a polling loop eventually sees a done handle or ends with
\* isLoading false (so a handle that never completes leads to an end).
C6_PollingEnds ==
    (videoGenerator.pc = "sleeping")
        ~> (videoGenerator.operationRef.done \/ ~videoGenerator.isLoading)

\* C6 amended: the loop leaves polling only by a done answer or a failed
\* check, and as long as it polls isLoading is true and no error is shown: a
\* handle that never completes is polled for ever.
C6_PollsUntilAnswered ==
    [][LET v == videoGenerator
           w == videoGenerator'
       IN /\ (Polling(v) /\ ~Polling(w))
                => (w.operationRef.done \/ w.error = ErrCheckFailed)
          /\ Polling(w) => (w.isLoading /\ w.error = "")]_vars

\* The loop is still waiting after MaxPolls not-done answers
C6_Witness ==
    LET v == videoGenerator
    IN v.pc = "sleeping" /\ v.notDone = MaxPolls /\ v.isLoading /\ v.error = ""

\* C7: a step that leaves operationRef done without a uri ends the handler
\* with the no-video error, isLoading false, videoUrl empty, and without a
\* download request.
C7_NoVideoReturned ==
    [][LET v == videoGenerator
           w == videoGenerator'
       IN (w.operationRef # v.operationRef /\ w.operationRef.done
              /\ ~w.operationRef.hasUri)
            => /\ w.error = ErrNoVideo
               /\ ~w.isLoading
               /\ w.videoUrl = ""
               /\ w.pc = "idle"
               /\ w.downloads = v.downloads]_vars

\* The loop ended on a checked handle that is done and has no uri
C7_Witness ==
    LET v == videoGenerator
    IN /\ v.pc = "idle"
       /\ v.operationRef.done
       /\ ~v.operationRef.hasUri
       /\ v.checks >= 1
       /\ v.error = ErrNoVideo
       /\ v.downloads = 0

\* C12: a handler of handleSubmit / pollOperation that has not ended keeps
\* isLoading true (so the submit button is disabled), and a submission is
\* accepted only while no such handler is running: at most one loop is active.
C12_OneLoop ==
    /\ [](videoGenerator.pc # "idle" => videoGenerator.isLoading)
    /\ [][videoSubmits' # videoSubmits => videoGenerator.pc = "idle"]_vars

\* A second submission was accepted after the first loop had ended, and its
\* loop is polling
C12_Witness ==
    /\ videoSubmits = 2
    /\ videoGenerator.pc = "sleeping"
    /\ videoGenerator.operationRef.name = 2

\* C13: from a failed status check until the next submission the handler is
\* over, the check-failed error is shown, isLoading is false, videoUrl is
\* empty, and no status check or download is issued.
C13_CheckFailureStops ==
    /\ [](LET v == videoGenerator
          IN v.failure = "check"
                => /\ v.pc = "idle"
                   /\ v.error = ErrCheckFailed
                   /\ ~v.isLoading
                   /\ v.videoUrl = "")
    /\ [][LET v == videoGenerator
              w == videoGenerator'
          IN (v.failure = "check" /\ w.failure = "check")
                => (w.checks = v.checks /\ w.downloads = v.downloads)]_vars

\* The second status check of a loop failed
C13_Witness ==
    LET v == videoGenerator
    IN /\ v.failure = "check"
       /\ v.checks = 2
       /\ v.notDone = 1
       /\ v.pc = "idle"
       /\ v.downloads = 0

\* C14: the step in which an await of the handler is rejected: a not-found
\* failure of the start, or a failed status check, clears apiKeySelected and
\* sets its error; any other failure of the start leaves apiKeySelected as
\* it was and sets the start-failed error.
C14_AuthFailureReselects ==
    [][LET v == videoGenerator
           w == videoGenerator'
       IN w.failure # v.failure
            => /\ w.failure = "notFound"
                    => (~w.apiKeySelected /\ w.error = ErrApiKey)
               /\ w.failure = "check"
                    => (~w.apiKeySelected /\ w.error = ErrCheckFailed)
               /\ w.failure = "start"
                    => (/\ w.apiKeySelected = v.apiKeySelected
                        /\ w.error = ErrStartFailed)]_vars

\* generateVideo failed with the not-found error and the view asks for the
\* key again
C14_Witness ==
    LET v == videoGenerator
    IN /\ v.failure = "notFound"
       /\ ~v.apiKeySelected
       /\ v.error = ErrApiKey
       /\ v.pc = "idle"
       /\ ~v.isLoading

\* C20: once the component is unmounted its loop issues no further status
\* check and no download.
C20_UnmountStopsPolling ==
    [][LET v == videoGenerator
           w == videoGenerator'
       IN ~v.mounted => (w.checks <= v.checks /\ w.downloads <= v.downloads)]_vars

\* ------------------------------------------------------------------------
\* Properties of the form views (SpecForms)
\* ------------------------------------------------------------------------
\* A string that is empty or holds only whitespace
Blank(s) == \A i \in 1..Len(s) : s[i] = " "

HasTool(r, t) == \E i \in 1..Len(r.tools) : r.tools[i] = t

\* C8: a run of the submit handler while the prompt is blank leaves the view
\* as it is and issues no vendor call; and no vendor call ever carries a
\* blank prompt.
C8_BlankPromptNoCall ==
    [][/\ (clicks' # clicks /\ Blank(view.prompt))
            => (view' = view /\ calls' = calls /\ lastRequest' = lastRequest)
       /\ calls' # calls => ~Blank(lastRequest'.contents)]_vars

\* The submit handler of ImageEditor has run on a whitespace prompt (with a
\* file chosen), and nothing was called or shown
C8_Witness ==
    /\ currentFeature = ImageEdit
    /\ clicks = 1
    /\ calls = 0
    /\ view.hasFile
    /\ view.prompt = <<" ">>
    /\ view.pc = "idle"
    /\ ~view.isLoading
    /\ view.error = ""

\* C9: a generateText request made with Maps on, in a view whose position
\* request was granted and never refused, carries the coordinates.
C9_CoordsAttached ==
    (/\ currentFeature = TextGen
     /\ view.pc = "calling"
     /\ HasTool(lastRequest, "googleMaps")
     /\ \E i \in GeoSlots : view.geo[i] = "granted"
     /\ \A i \in GeoSlots : view.geo[i] # "denied")
        => lastRequest.toolConfig # <<>>

\* C10: a refused position request sets the location error, and a request
\* submitted while no position has been obtained carries no toolConfig.
C10_DeniedNoCoords ==
    [][/\ \A i \in GeoSlots :
             (view.geo[i] = "pending" /\ view'.geo[i] = "denied")
                => view'.error = ErrGeo
       /\ (calls' # calls /\ currentFeature = TextGen /\ view.position = <<>>)
            => lastRequest'.toolConfig = <<>>]_vars

\* After a refusal a Maps request is in flight without a toolConfig
C10_Witness ==
    /\ currentFeature = TextGen
    /\ \E i \in GeoSlots : view.geo[i] = "denied"
    /\ \A i \in GeoSlots : view.geo[i] # "pending"
    /\ view.position = <<>>
    /\ view.pc = "calling"
    /\ view.error = ""
    /\ HasTool(lastRequest, "googleMaps")
    /\ lastRequest.toolConfig = <<>>

C21_RequestFromFlags ==
    [][(calls' # calls /\ currentFeature = TextGen)
         => LET r == lastRequest'
                v == view
            IN /\ r.contents = v.prompt
               /\ v.useThinking
                    => (r.model = "gemini-2.5-pro" /\ r.thinkingBudget = 32768)
               /\ ~v.useThinking
                    => (r.model = "gemini-2.5-flash-lite" /\ r.thinkingBudget = 0)
               /\ HasTool(r, "googleSearch") <=> v.useSearch
               /\ HasTool(r, "googleMaps") <=> v.useMaps
               /\ Len(r.tools) = (IF v.useSearch THEN 1 ELSE 0)
                                    + (IF v.useMaps THEN 1 ELSE 0)
               /\ r.configTools <=> (v.useSearch \/ v.useMaps)
               /\ (r.toolConfig # <<>>) <=> (v.useMaps /\ v.position # <<>>)
               /\ r.toolConfig # <<>>
                    => (/\ r.toolConfig[1].latitude = v.position[1].latitude
                        /\ r.toolConfig[1].longitude = v.position[1].longitude)]_vars

\* A request made with thinking and Maps on, search off, and the second of
\* the two positions held
C21_Witness ==
    /\ currentFeature = TextGen
    /\ view.pc = "calling"
    /\ lastRequest.model = "gemini-2.5-pro"
    /\ lastRequest.thinkingBudget = ThinkingBudget
    /\ lastRequest.tools = <<"googleMaps">>
    /\ lastRequest.configTools
    /\ lastRequest.toolConfig = <<[latitude |-> 3, longitude |-> 4]>>

====
